---- MODULE Spec2Model ----
(***************************************************************************)
(* Coffee-Shop-Profit-Predictor: the ingestion (create_db.py), training    *)
(* (train_regression.py) and scoring (score_new_sites.py) invocations as   *)
(* one state machine over the durable state they share: the SQLite         *)
(* database and the output directory.  One invocation runs at a time       *)
(* (the programs are single-process command line tools); each statement    *)
(* group of an invocation that touches durable state is one action.        *)
(***************************************************************************)
EXTENDS Integers, Sequences, FiniteSets, TLC

(***************************************************************************)
(* Bounds of the model.                                                    *)
(***************************************************************************)
MaxRuns == 3
MaxRows == 4
MaxCand == 3
MaxNonZero == 2

(***************************************************************************)
(* Program constants.                                                      *)
(***************************************************************************)
FEATURES ==
    << "foot_traffic", "rent_per_sqm", "competition", "median_income",
       "office_density", "weekend_activity", "events_per_month",
       "coffee_price", "promo_spend", "demand_adj", "wknd_traffic",
       "price_income", "promo_comp_adj" >>

TARGET == "profit"

NFeatures == Len(FEATURES)

FeatureSet == { FEATURES[k] : k \in 1..NFeatures }

REQUIRED_TRAIN ==
    { "lat", "lon", "foot_traffic", "rent_per_sqm", "competition",
      "median_income", "office_density", "weekend_activity",
      "events_per_month", "coffee_price", "promo_spend", "profit" }

REQUIRED_CAND == REQUIRED_TRAIN \ { "profit" }

\* Column sets created by CREATE TABLE IF NOT EXISTS (SCHEMA_TRAIN / SCHEMA_CAND).
SCHEMA_TRAIN == REQUIRED_TRAIN

SCHEMA_CAND == REQUIRED_CAND

(***************************************************************************)
(* sorted(missing): Python orders str by code point.  Every name is a      *)
(* tuple of code points here, compared as Python compares them.            *)
(***************************************************************************)
Letters == << "_", "a", "b", "c", "d", "e", "f", "g", "h", "i", "j", "k", "l",
              "m", "n", "o", "p", "q", "r", "s", "t", "u", "v", "w", "x", "y",
              "z" >>

\* ord(c) of the characters that occur in column names ("_" is 95, "a" is 97).
Ord(c) == LET i == CHOOSE j \in 1..Len(Letters) : Letters[j] = c
          IN  IF i = 1 THEN 95 ELSE 95 + i

Spelling(name) ==
    CASE name = "lat" -> << "l", "a", "t" >>
      [] name = "lon" -> << "l", "o", "n" >>
      [] name = "foot_traffic" ->
            << "f", "o", "o", "t", "_", "t", "r", "a", "f", "f", "i", "c" >>
      [] name = "rent_per_sqm" ->
            << "r", "e", "n", "t", "_", "p", "e", "r", "_", "s", "q", "m" >>
      [] name = "competition" ->
            << "c", "o", "m", "p", "e", "t", "i", "t", "i", "o", "n" >>
      [] name = "median_income" ->
            << "m", "e", "d", "i", "a", "n", "_", "i", "n", "c", "o", "m", "e" >>
      [] name = "office_density" ->
            << "o", "f", "f", "i", "c", "e", "_", "d", "e", "n", "s", "i", "t", "y" >>
      [] name = "weekend_activity" ->
            << "w", "e", "e", "k", "e", "n", "d", "_", "a", "c", "t", "i", "v", "i",
               "t", "y" >>
      [] name = "events_per_month" ->
            << "e", "v", "e", "n", "t", "s", "_", "p", "e", "r", "_", "m", "o", "n",
               "t", "h" >>
      [] name = "coffee_price" ->
            << "c", "o", "f", "f", "e", "e", "_", "p", "r", "i", "c", "e" >>
      [] name = "promo_spend" ->
            << "p", "r", "o", "m", "o", "_", "s", "p", "e", "n", "d" >>
      [] name = "profit" -> << "p", "r", "o", "f", "i", "t" >>

RECURSIVE SeqLess(_, _)
SeqLess(a, b) ==
    IF a = << >> THEN b # << >>
    ELSE IF b = << >> THEN FALSE
    ELSE IF Ord(Head(a)) # Ord(Head(b)) THEN Ord(Head(a)) < Ord(Head(b))
    ELSE SeqLess(Tail(a), Tail(b))

StrLess(a, b) == SeqLess(Spelling(a), Spelling(b))

RECURSIVE sorted(_)
sorted(S) ==
    IF S = {} THEN << >>
    ELSE LET m == CHOOSE x \in S : \A y \in S \ {x} : StrLess(x, y)
         IN  << m >> \o sorted(S \ {m})

(***************************************************************************)
(* The durable state: the SQLite database and the output directory.       *)
(***************************************************************************)
VARIABLES db, fs, model_joblib, scored_candidates, metrics_json,
          pc, run, args, local, err, pre, history,
          coefs, importance, rankpc

vars == << db, fs, model_joblib, scored_candidates, metrics_json,
           pc, run, args, local, err, pre, history,
           coefs, importance, rankpc >>

pipeVars == << db, fs, model_joblib, scored_candidates, metrics_json,
               pc, run, args, local, err, pre, history >>

rankVars == << coefs, importance, rankpc >>

(***************************************************************************)
(* Input data.  A table holds the columns of the CSV it was loaded from    *)
(* and its rows; the rows of the two feature views are the sample rows     *)
(* below, row i of a view coming from row i of its table.                  *)
(***************************************************************************)
NoTable == [exists |-> FALSE, cols |-> {}, n |-> 0]

Table(cols, n) == [exists |-> TRUE, cols |-> cols, n |-> n]

\* The CSV files an ingestion may be given (pd.read_csv of --train).
TrainCsvs ==
    { [cols |-> REQUIRED_TRAIN, n |-> k] : k \in 0..MaxRows }
    \cup { [cols |-> REQUIRED_TRAIN \cup {"notes"}, n |-> 2],
           [cols |-> REQUIRED_TRAIN \ {"rent_per_sqm"}, n |-> 2],
           [cols |-> REQUIRED_TRAIN \ {"rent_per_sqm", "lat"}, n |-> 2] }

\* The CSV files an ingestion may be given (pd.read_csv of --candidates).
CandCsvs ==
    { [cols |-> REQUIRED_CAND, n |-> k] : k \in 0..MaxCand }
    \cup { [cols |-> REQUIRED_CAND \ {"rent_per_sqm"}, n |-> 1] }

\* The scripts --sql may name: each defines the views features_train and
\* features_candidates; they differ in the columns the views expose.
SqlTexts == { "canonical", "extra_column", "missing_feature", "missing_lat" }

ViewCols(sql, view) ==
    LET base == {"lat", "lon"} \cup FeatureSet
                \cup (IF view = "features_train" THEN {TARGET} ELSE {})
    IN  CASE sql = "canonical" -> base
          [] sql = "extra_column" -> base \cup {"site_id"}
          [] sql = "missing_feature" -> base \ {"promo_comp_adj"}
          [] sql = "missing_lat" -> base \ {"lat"}

\* Row i of features_train: coordinates, the 13 feature values, the label.
TrainRow(i) ==
    [lat |-> 40 + i, lon |-> 70 - i,
     x |-> [k \in 1..NFeatures |-> (i * k) % 4],
     profit |-> 5 * i + (i % 2)]

\* Row i of features_candidates: coordinates and the 13 feature values.
CandRow(i) ==
    [lat |-> 50 + i, lon |-> 80 - i,
     x |-> [k \in 1..NFeatures |-> (i * k + i) % 5]]

(***************************************************************************)
(* train_test_split(X, y, test_size=0.25, random_state=42).                *)
(***************************************************************************)
\* Mutant: random_state left unset, the permutation then comes from the
\* process-wide generator, which differs from one invocation to the next.
PermutationUnseeded(n) == [i \in 1..n |-> ((i + run) % n) + 1]

\* numpy RandomState(42).permutation(n), positions counted from 1: the
\* Mersenne twister seeded with 42 driving the Fisher-Yates shuffle,
\* tabulated for the sizes within the bounds.
Permutation42(n) ==
    CASE n = 0 -> << >>
      [] n = 1 -> << 1 >>
      [] n = 2 -> << 2, 1 >>
      [] n = 3 -> << 1, 2, 3 >>
      [] n = 4 -> << 2, 4, 1, 3 >>
      [] n = 5 -> << 2, 5, 3, 1, 4 >>
      [] n = 6 -> << 1, 2, 6, 3, 5, 4 >>

\* ceil(0.25 * n)
NTest(n) == (n + 3) \div 4

NTrain(n) == n - NTest(n)

\* Mutant: the split refuses a training partition of a single row too.
train_test_split_min2(n) ==
    LET p == Permutation42(n)
    IN  [ok |-> NTrain(n) > 1,
         test |-> SubSeq(p, 1, NTest(n)),
         train |-> SubSeq(p, NTest(n) + 1, n)]

\* The row positions of the evaluation partition and of the training
\* partition, in the order the split returns them.
train_test_split(n) ==
    LET p == Permutation42(n)
    IN  [ok |-> NTrain(n) # 0,
         test |-> SubSeq(p, 1, NTest(n)),
         train |-> SubSeq(p, NTest(n) + 1, n)]

(***************************************************************************)
(* The pipeline: StandardScaler then ElasticNet, in integer arithmetic.    *)
(* fit is a function of the training partition alone (cyclic coordinate    *)
(* descent draws nothing at random); predict is row-wise.                  *)
(***************************************************************************)
RECURSIVE SumSeq(_)
SumSeq(s) == IF s = << >> THEN 0 ELSE Head(s) + SumSeq(Tail(s))

Abs(v) == IF v < 0 THEN 0 - v ELSE v

\* The L1 part of the penalty shrinks a coefficient towards 0, and to 0.
SoftThreshold(v) == IF v > 1 THEN v - 1 ELSE IF v < -1 THEN v + 1 ELSE 0

NoPipe ==
    [fitted |-> FALSE, mean |-> [k \in 1..NFeatures |-> 0],
     coef |-> [k \in 1..NFeatures |-> 0], intercept |-> 0]

fit(train) ==
    LET n     == Len(train)
        ymean == SumSeq([j \in 1..n |-> TrainRow(train[j]).profit]) \div n
        mean  == [k \in 1..NFeatures |->
                    SumSeq([j \in 1..n |-> TrainRow(train[j]).x[k]]) \div n]
        cov   == [k \in 1..NFeatures |->
                    SumSeq([j \in 1..n |->
                        (TrainRow(train[j]).x[k] - mean[k])
                        * (TrainRow(train[j]).profit - ymean)])]
    IN  [fitted |-> TRUE, mean |-> mean,
         coef |-> [k \in 1..NFeatures |-> SoftThreshold(cov[k])],
         intercept |-> ymean]

predict(pipe, x) ==
    pipe.intercept
    + SumSeq([k \in 1..NFeatures |-> pipe.coef[k] * (x[k] - pipe.mean[k])])

\* r2_score and mean_absolute_error on the evaluation partition, each kept
\* as the exact pair numerator, denominator.
NoMetrics == [r2 |-> << 0, 0 >>, mae |-> << 0, 0 >>]

Metrics(pipe, test) ==
    LET n     == Len(test)
        y     == [j \in 1..n |-> TrainRow(test[j]).profit]
        yhat  == [j \in 1..n |-> predict(pipe, TrainRow(test[j]).x)]
        ymean == SumSeq(y) \div n
    IN  [r2  |-> << SumSeq([j \in 1..n |-> (y[j] - yhat[j]) * (y[j] - yhat[j])]),
                    SumSeq([j \in 1..n |-> (y[j] - ymean) * (y[j] - ymean)]) >>,
         mae |-> << SumSeq([j \in 1..n |-> Abs(y[j] - yhat[j])]), n >>]

(***************************************************************************)
(* Files of the output directory.  A file is absent, partial (opened for   *)
(* writing and truncated, its content not yet all written) or complete;    *)
(* run is the invocation that last wrote it.                               *)
(***************************************************************************)
\* Mutant: the model is persisted right after the fit, before the
\* diagnostics.
TrainOutputsModelFirst ==
    << "model.joblib", "metrics.json", "predictions_train.csv",
       "actual_vs_predicted.png", "residuals_hist.png",
       "feature_importance.csv", "feature_importance.png" >>

\* The files run_training writes, in the order it writes them.
TrainOutputs ==
    << "metrics.json", "predictions_train.csv", "actual_vs_predicted.png",
       "residuals_hist.png", "feature_importance.csv",
       "feature_importance.png", "model.joblib" >>

\* The file run_scoring writes.
ScoreOutput == "scored_candidates.csv"

FileNames == { TrainOutputs[k] : k \in 1..Len(TrainOutputs) } \cup { ScoreOutput }

Absent == [state |-> "absent", run |-> 0]

NoErr == [type |-> "none", at |-> "", missing |-> << >>]

NoCsv == [cols |-> {}, n |-> 0]

NoArgs == [cmd |-> "", sql |-> "", train_csv |-> NoCsv, cand_csv |-> NoCsv]

NoSplit == [ok |-> FALSE, test |-> << >>, train |-> << >>]

NoLocal ==
    [df |-> NoCsv, split |-> NoSplit, pipe |-> NoPipe, metrics |-> NoMetrics,
     k |-> 0, scored |-> << >>]

NoCoefs == [k \in 1..NFeatures |-> 0]

Terminated == pc \in { "idle", "done", "failed" }

Init ==
    /\ db = [train |-> NoTable, cand |-> NoTable, views |-> "none"]
    /\ fs = [outdir |-> FALSE, charts |-> FALSE,
             files |-> [f \in FileNames |-> Absent]]
    /\ model_joblib = NoPipe
    /\ scored_candidates = << >>
    /\ metrics_json = NoMetrics
    /\ pc = "idle"
    /\ run = 0
    /\ args = NoArgs
    /\ local = NoLocal
    /\ err = NoErr
    /\ pre = [db |-> db, outdir |-> fs.outdir, charts |-> fs.charts]
    /\ history = << >>
    /\ coefs = NoCoefs
    /\ importance = << >>
    /\ rankpc = "off"

\* The ranking of lines 91-95 on its own: the coefficient vector is the
\* input, built one coefficient at a time from the all-zero vector.
InitRank ==
    /\ db = [train |-> NoTable, cand |-> NoTable, views |-> "none"]
    /\ fs = [outdir |-> FALSE, charts |-> FALSE,
             files |-> [f \in FileNames |-> Absent]]
    /\ model_joblib = NoPipe
    /\ scored_candidates = << >>
    /\ metrics_json = NoMetrics
    /\ pc = "rank"
    /\ run = 0
    /\ args = NoArgs
    /\ local = NoLocal
    /\ err = NoErr
    /\ pre = [db |-> db, outdir |-> fs.outdir, charts |-> fs.charts]
    /\ history = << >>
    /\ coefs = NoCoefs
    /\ importance = << >>
    /\ rankpc = "build"

\* A new process: one of the three command line programs is invoked.
Start(a, first) ==
    /\ Terminated
    /\ run < MaxRuns
    /\ run' = run + 1
    /\ args' = a
    /\ local' = NoLocal
    /\ err' = NoErr
    /\ pre' = [db |-> db, outdir |-> fs.outdir, charts |-> fs.charts]
    /\ pc' = first
    /\ UNCHANGED << db, fs, model_joblib, scored_candidates, metrics_json,
                    history, rankVars >>

\* The invocation ends with an exception.
Raise(type, at, missing) ==
    /\ err' = [type |-> type, at |-> at, missing |-> missing]
    /\ pc' = "failed"

(***************************************************************************)
(* create_db.py                                                            *)
(***************************************************************************)
StartIngest ==
    \E t \in TrainCsvs, c \in CandCsvs :
        Start([cmd |-> "create_db", sql |-> "", train_csv |-> t, cand_csv |-> c],
              "i_schema")

\* con.execute(SCHEMA_TRAIN); con.execute(SCHEMA_CAND): CREATE TABLE IF NOT
\* EXISTS runs outside any transaction and is durable at once.
IngestSchema ==
    /\ pc = "i_schema"
    /\ db' = [db EXCEPT
                !.train = IF db.train.exists THEN @ ELSE Table(SCHEMA_TRAIN, 0),
                !.cand  = IF db.cand.exists  THEN @ ELSE Table(SCHEMA_CAND, 0)]
    /\ pc' = "i_train"
    /\ UNCHANGED << fs, model_joblib, scored_candidates, metrics_json, run, args,
                    local, err, pre, history, rankVars >>

\* required - set(df.columns)
validate_columns(df, required) == required \ df.cols

\* _load_csv_to_db: validate, then df.to_sql(table, con, if_exists="replace"),
\* which drops the table, recreates it with the CSV's columns and commits.
load_csv_to_db(df, table, required, next) ==
    LET missing == validate_columns(df, required)
    IN  IF missing # {}
        THEN /\ Raise("ValueError", table, sorted(missing))
             /\ UNCHANGED db
        ELSE /\ db' = IF table = "locations_train"
                      THEN [db EXCEPT !.train = Table(df.cols, df.n)]
                      ELSE [db EXCEPT !.cand = Table(df.cols, df.n)]
             /\ pc' = next
             /\ UNCHANGED err

IngestTrain ==
    /\ pc = "i_train"
    /\ load_csv_to_db(args.train_csv, "locations_train", REQUIRED_TRAIN, "i_cand")
    /\ UNCHANGED << fs, model_joblib, scored_candidates, metrics_json, run, args,
                    local, pre, history, rankVars >>

IngestCand ==
    /\ pc = "i_cand"
    /\ load_csv_to_db(args.cand_csv, "locations_candidates", REQUIRED_CAND, "done")
    /\ UNCHANGED << fs, model_joblib, scored_candidates, metrics_json, run, args,
                    local, pre, history, rankVars >>

(***************************************************************************)
(* Steps shared by run_training and run_scoring.                           *)
(***************************************************************************)
\* con.executescript(sql_text) then SELECT * FROM <view>: the script's views
\* replace those in the database (durably, before the SELECT); the SELECT
\* fails when the table under the view does not exist.
ReadView(view, table, next) ==
    /\ db' = [db EXCEPT !.views = args.sql]
    /\ IF ~table.exists
       THEN /\ Raise("OperationalError", view, << >>)
            /\ UNCHANGED local
       ELSE /\ local' = [local EXCEPT
                           !.df = [cols |-> ViewCols(args.sql, view), n |-> table.n]]
            /\ pc' = next
            /\ UNCHANGED err

\* open(path, "w") / to_csv / savefig / joblib.dump open the final name and
\* truncate it: until the content is all written the file is partial.
OpenForWrite(f) == [fs EXCEPT !.files[f] = [state |-> "partial", run |-> run]]

CloseAfterWrite(f) == [fs EXCEPT !.files[f] = [state |-> "complete", run |-> run]]

\* A write that fails part-way (OSError: disk full, I/O error): the
\* exception ends the invocation and the file stays as it is.
WriteFault ==
    /\ pc \in { "t_write", "s_write" }
    /\ Raise("OSError",
             IF pc = "t_write" THEN TrainOutputs[local.k] ELSE ScoreOutput, << >>)
    /\ UNCHANGED << db, fs, model_joblib, scored_candidates, metrics_json, run,
                    args, local, pre, history, rankVars >>

(***************************************************************************)
(* train_regression.py                                                     *)
(***************************************************************************)
StartTraining ==
    \E q \in SqlTexts :
        Start([cmd |-> "train_regression", sql |-> q, train_csv |-> NoCsv,
               cand_csv |-> NoCsv], "t_outdir")

\* outdir = ensure_outdir(outdir); charts_dir = ensure_outdir(outdir / "charts")
TrainEnsureOutdir ==
    /\ pc = "t_outdir"
    /\ fs' = [fs EXCEPT !.outdir = TRUE, !.charts = TRUE]
    /\ pc' = "t_db"
    /\ UNCHANGED << db, model_joblib, scored_candidates, metrics_json, run, args,
                    local, err, pre, history, rankVars >>

TrainReadView ==
    /\ pc = "t_db"
    /\ ReadView("features_train", db.train, "t_fit")
    /\ UNCHANGED << fs, model_joblib, scored_candidates, metrics_json, run, args,
                    pre, history, rankVars >>

\* X = train_df[FEATURES]; y = train_df[TARGET]; the split; pipe.fit on the
\* training partition; the metrics on the evaluation partition.
TrainFit ==
    /\ pc = "t_fit"
    /\ LET df == local.df
           sp == train_test_split(df.n)
       IN  IF ~(FeatureSet \subseteq df.cols)
           THEN /\ Raise("KeyError", "train_df[FEATURES]", << >>)
                /\ UNCHANGED << local, history >>
           ELSE IF TARGET \notin df.cols
           THEN /\ Raise("KeyError", "train_df[TARGET]", << >>)
                /\ UNCHANGED << local, history >>
           ELSE IF ~sp.ok
           THEN /\ Raise("ValueError", "train_test_split", << >>)
                /\ UNCHANGED << local, history >>
           ELSE LET pipe == fit(sp.train)
                    m    == Metrics(pipe, sp.test)
                IN  /\ local' = [local EXCEPT !.split = sp, !.pipe = pipe,
                                              !.metrics = m, !.k = 1]
                    /\ history' = Append(history,
                                    [run |-> run, input |-> df, train |-> sp.train,
                                     test |-> sp.test, metrics |-> m])
                    /\ pc' = "t_open"
                    /\ UNCHANGED err
    /\ UNCHANGED << db, fs, model_joblib, scored_candidates, metrics_json, run,
                    args, pre, rankVars >>

\* The next save of run_training opens its file.  The predictions table is
\* built from train_df[["lat", "lon"]] just before its save.
TrainOpen ==
    /\ pc = "t_open"
    /\ LET f == TrainOutputs[local.k]
       IN  IF f = "predictions_train.csv" /\ ~({"lat", "lon"} \subseteq local.df.cols)
           THEN /\ Raise("KeyError", "train_df[[lat, lon]]", << >>)
                /\ UNCHANGED << fs, model_joblib, metrics_json >>
           ELSE /\ fs' = OpenForWrite(f)
                /\ metrics_json' = IF f = "metrics.json" THEN NoMetrics
                                   ELSE metrics_json
                /\ model_joblib' = IF f = "model.joblib" THEN NoPipe
                                   ELSE model_joblib
                /\ pc' = "t_write"
                /\ UNCHANGED err
    /\ UNCHANGED << db, scored_candidates, run, args, local, pre, history,
                    rankVars >>

\* The save completes; after the last one run_training returns.
TrainWrite ==
    /\ pc = "t_write"
    /\ LET f == TrainOutputs[local.k]
       IN  /\ fs' = CloseAfterWrite(f)
           /\ metrics_json' = IF f = "metrics.json" THEN local.metrics
                              ELSE metrics_json
           /\ model_joblib' = IF f = "model.joblib" THEN local.pipe
                              ELSE model_joblib
    /\ IF local.k = Len(TrainOutputs)
       THEN /\ pc' = "done"
            /\ UNCHANGED local
       ELSE /\ pc' = "t_open"
            /\ local' = [local EXCEPT !.k = @ + 1]
    /\ UNCHANGED << db, scored_candidates, run, args, err, pre, history,
                    rankVars >>

(***************************************************************************)
(* score_new_sites.py                                                      *)
(***************************************************************************)
StartScoring ==
    \E q \in SqlTexts :
        Start([cmd |-> "score_new_sites", sql |-> q, train_csv |-> NoCsv,
               cand_csv |-> NoCsv], "s_outdir")

\* outdir = ensure_outdir(outdir)
ScoreEnsureOutdir ==
    /\ pc = "s_outdir"
    /\ fs' = [fs EXCEPT !.outdir = TRUE]
    /\ pc' = "s_db"
    /\ UNCHANGED << db, model_joblib, scored_candidates, metrics_json, run, args,
                    local, err, pre, history, rankVars >>

ScoreReadView ==
    /\ pc = "s_db"
    /\ ReadView("features_candidates", db.cand, "s_load")
    /\ UNCHANGED << fs, model_joblib, scored_candidates, metrics_json, run, args,
                    pre, history, rankVars >>

\* pipe = joblib.load(model_path)
ScoreLoad ==
    /\ pc = "s_load"
    /\ LET f == fs.files["model.joblib"]
       IN  CASE f.state = "absent" ->
                  /\ Raise("FileNotFoundError", "joblib.load", << >>)
                  /\ UNCHANGED local
             [] f.state = "partial" ->
                  /\ Raise("EOFError", "joblib.load", << >>)
                  /\ UNCHANGED local
             [] f.state = "complete" ->
                  /\ local' = [local EXCEPT !.pipe = model_joblib]
                  /\ pc' = "s_predict"
                  /\ UNCHANGED err
    /\ UNCHANGED << db, fs, model_joblib, scored_candidates, metrics_json, run,
                    args, pre, history, rankVars >>

\* Mutant: the predictions are attached in the opposite order (as after a
\* descending sort of the frame that is not applied to the coordinates).
AssembleScoredReversed(n, preds) ==
    [i \in 1..n |-> [lat |-> CandRow(i).lat, lon |-> CandRow(i).lon,
                     predicted_profit |-> preds[n + 1 - i]]]

\* scored = X_cand[["lat", "lon"]].copy(); scored["predicted_profit"] = preds:
\* the array is assigned by position.
AssembleScored(n, preds) ==
    [i \in 1..n |-> [lat |-> CandRow(i).lat, lon |-> CandRow(i).lon,
                     predicted_profit |-> preds[i]]]

\* preds = pipe.predict(X_cand[FEATURES]) and the scored table.
ScorePredict ==
    /\ pc = "s_predict"
    /\ LET df == local.df
       IN  IF ~(FeatureSet \subseteq df.cols)
           THEN /\ Raise("KeyError", "X_cand[FEATURES]", << >>)
                /\ UNCHANGED local
           ELSE IF df.n = 0
           THEN /\ Raise("ValueError", "pipe.predict", << >>)
                /\ UNCHANGED local
           ELSE IF ~({"lat", "lon"} \subseteq df.cols)
           THEN /\ Raise("KeyError", "X_cand[[lat, lon]]", << >>)
                /\ UNCHANGED local
           ELSE LET preds == [i \in 1..df.n |-> predict(local.pipe, CandRow(i).x)]
                IN  /\ local' = [local EXCEPT !.scored = AssembleScored(df.n, preds)]
                    /\ pc' = "s_open"
                    /\ UNCHANGED err
    /\ UNCHANGED << db, fs, model_joblib, scored_candidates, metrics_json, run,
                    args, pre, history, rankVars >>

\* save_csv(scored, outdir / "scored_candidates.csv") opens the file ...
ScoreOpen ==
    /\ pc = "s_open"
    /\ fs' = OpenForWrite(ScoreOutput)
    /\ scored_candidates' = << >>
    /\ pc' = "s_write"
    /\ UNCHANGED << db, model_joblib, metrics_json, run, args, local, err, pre,
                    history, rankVars >>

\* ... and writes every row.
ScoreWrite ==
    /\ pc = "s_write"
    /\ fs' = CloseAfterWrite(ScoreOutput)
    /\ scored_candidates' = local.scored
    /\ pc' = "done"
    /\ UNCHANGED << db, model_joblib, metrics_json, run, args, local, err, pre,
                    history, rankVars >>

Next ==
    \/ StartIngest
    \/ IngestSchema
    \/ IngestTrain
    \/ IngestCand
    \/ StartTraining
    \/ TrainEnsureOutdir
    \/ TrainReadView
    \/ TrainFit
    \/ TrainOpen
    \/ TrainWrite
    \/ StartScoring
    \/ ScoreEnsureOutdir
    \/ ScoreReadView
    \/ ScoreLoad
    \/ ScorePredict
    \/ ScoreOpen
    \/ ScoreWrite
    \/ WriteFault

Spec == Init /\ [][Next]_vars

(***************************************************************************)
(* Feature importance: importance.reindex(importance["importance"].abs()   *)
(* .sort_values(ascending=False).index).reset_index(drop=True).            *)
(***************************************************************************)
CoefValues == { -2, -1, 1, 2 }

Reverse(s) == [i \in 1..Len(s) |-> s[Len(s) + 1 - i]]

\* The positions of keys in ascending order of key, equal keys in ascending
\* order of position: what a stable argsort returns.
RECURSIVE ArgsortFrom(_, _)
ArgsortFrom(keys, left) ==
    IF left = {} THEN << >>
    ELSE LET m == CHOOSE i \in left :
                    \A j \in left \ {i} :
                        \/ keys[i] < keys[j]
                        \/ keys[i] = keys[j] /\ i < j
         IN  << m >> \o ArgsortFrom(keys, left \ {m})

StableArgsort(keys) == ArgsortFrom(keys, 1..Len(keys))

SwapAt(p, j) ==
    [i \in 1..Len(p) |-> IF i = j THEN p[j + 1] ELSE IF i = j + 1 THEN p[j] ELSE p[i]]

\* ndarray.argsort(kind="quicksort"), the default kind of sort_values, is
\* not a stable sort: the order it gives equal keys depends on the numpy
\* build (insertion sort for short arrays in one, a vectorised sorting
\* network in another).  The outcomes kept here are the stable order and
\* every order that differs from it by one exchange of two equal neighbours.
QuicksortArgsort(keys) ==
    LET p == StableArgsort(keys)
    IN  { p } \cup { SwapAt(p, j) : j \in { i \in 1..(Len(p) - 1) :
                                              keys[p[i]] = keys[p[i + 1]] } }

\* pandas nargsort with ascending=False: reverse, argsort ascending, map the
\* positions back, reverse again.  The result is the set of index orders
\* sort_values may return.
SortValuesDescending(keys) ==
    LET idx == Reverse([i \in 1..Len(keys) |-> i])
        rk  == Reverse(keys)
    IN  { Reverse([i \in 1..Len(keys) |-> idx[p[i]]]) : p \in QuicksortArgsort(rk) }

\* The frame {"feature": FEATURES, "importance": coefs} reindexed by order.
Reindex(cf, order) ==
    [i \in 1..Len(order) |->
        [feature |-> FEATURES[order[i]], importance |-> cf[order[i]]]]

SetCoef ==
    /\ rankpc = "build"
    /\ Cardinality({ k \in 1..NFeatures : coefs[k] # 0 }) < MaxNonZero
    /\ \E k \in 1..NFeatures, v \in CoefValues :
          /\ coefs[k] = 0
          /\ \A j \in (k + 1)..NFeatures : coefs[j] = 0
          /\ coefs' = [coefs EXCEPT ![k] = v]
    /\ UNCHANGED << pipeVars, importance, rankpc >>

RankFeatures ==
    /\ rankpc = "build"
    /\ \E order \in SortValuesDescending([k \in 1..NFeatures |-> Abs(coefs[k])]) :
          importance' = Reindex(coefs, order)
    /\ rankpc' = "ranked"
    /\ UNCHANGED << pipeVars, coefs >>

NextRank ==
    \/ SetCoef
    \/ RankFeatures

SpecRank == InitRank /\ [][NextRank]_vars

(***************************************************************************)
(* Properties.                                                             *)
(***************************************************************************)
TrainFiles == { TrainOutputs[k] : k \in 1..Len(TrainOutputs) }

\* The files the current invocation has created or overwritten so far.
RunOutputs == { f \in FileNames : fs.files[f].run = run /\ fs.files[f].state # "absent" }

CompleteByRun(f) == fs.files[f] = [state |-> "complete", run |-> run]

Training == args.cmd = "train_regression"

Scoring == args.cmd = "score_new_sites"

Ingesting == args.cmd = "create_db"

Ended == pc \in { "done", "failed" }

\* C1: a training invocation that has ended either produced no output file
\* at all or completed with every one of its seven outputs persisted.
C1_AllOrNothing ==
    (Training /\ Ended) =>
        \/ RunOutputs = {}
        \/ pc = "done" /\ \A f \in TrainFiles : CompleteByRun(f)

\* C2: a scoring invocation that loaded the artifact and whose non-empty
\* candidate view exposes, beside the coordinates, a column set other than
\* the feature set (a column more, a column less) ends in the
\* column-contract failure and writes no prediction file.
C2_FeatureContractEnforced ==
    (Scoring /\ Ended /\ local.pipe.fitted /\ local.df.n > 0
             /\ (local.df.cols \ {"lat", "lon"}) # FeatureSet) =>
        /\ pc = "failed"
        /\ err.type = "KeyError"
        /\ ScoreOutput \notin RunOutputs

\* C3: a scoring invocation on an ingested database with no artifact at
\* model_path ends in the artifact-not-found failure, writes no prediction
\* file and leaves the output directory and the database (its views
\* included) as they were before the invocation.
C3_MissingArtifactNoEffect ==
    (Scoring /\ Ended /\ pre.db.cand.exists
             /\ fs.files["model.joblib"].state = "absent") =>
        /\ pc = "failed"
        /\ err.type = "FileNotFoundError"
        /\ ScoreOutput \notin RunOutputs
        /\ fs.outdir = pre.outdir
        /\ db = pre.db

\* The view read by the current training invocation is a labeled record
\* set: it exposes every feature and the label.
LabeledInput == (FeatureSet \cup {TARGET}) \subseteq local.df.cols

\* The failure the split raises when the training partition would be empty
\* (sklearn's ValueError; the InsufficientDataError of the design).
InsufficientData == err.type = "ValueError" /\ err.at = "train_test_split"

\* C4: training on a labeled record set of size 0 or 1 ends in the
\* insufficient-data failure with no output file created by the run;
\* training on a set of size 2 or more never ends in that failure.
C4_InsufficientData ==
    (Training /\ Ended /\ LabeledInput) =>
        /\ local.df.n < 2 => (pc = "failed" /\ InsufficientData /\ RunOutputs = {})
        /\ local.df.n >= 2 => ~InsufficientData

C4_Witness ==
    /\ Training /\ LabeledInput
    /\ local.df.n = 1 /\ pc = "failed" /\ InsufficientData
    /\ fs.outdir /\ RunOutputs = {}

\* The CSV whose validation failed and the columns it had to have.
FailedCsv == IF err.at = "locations_train" THEN args.train_csv ELSE args.cand_csv

FailedRequired == IF err.at = "locations_train" THEN REQUIRED_TRAIN ELSE REQUIRED_CAND

IsSortedNames(s) == \A i, j \in 1..Len(s) : i < j => StrLess(s[i], s[j])

\* C5: an ingestion that fails reports exactly the missing column names,
\* sorted, and leaves both tables as they were before the invocation
\* (neither created nor overwritten).
C5_FailedIngestionLeavesTables ==
    (Ingesting /\ pc = "failed") =>
        /\ { err.missing[i] : i \in 1..Len(err.missing) }
              = FailedRequired \ FailedCsv.cols
        /\ IsSortedNames(err.missing)
        /\ db.train = pre.db.train
        /\ db.cand = pre.db.cand

\* C6: a scoring run that succeeds on N candidates has written N rows, row
\* i carrying the coordinates of input row i and the prediction the
\* artifact gives for input row i's feature values.
C6_OrderPreserved ==
    (Scoring /\ pc = "done") =>
        /\ CompleteByRun(ScoreOutput)
        /\ Len(scored_candidates) = db.cand.n
        /\ \A i \in 1..db.cand.n :
              scored_candidates[i] =
                  [lat |-> CandRow(i).lat, lon |-> CandRow(i).lon,
                   predicted_profit |-> predict(model_joblib, CandRow(i).x)]

C6_Witness ==
    /\ Scoring /\ pc = "done"
    /\ Len(scored_candidates) >= 3
    /\ scored_candidates[1].predicted_profit # scored_candidates[3].predicted_profit
    /\ scored_candidates[1].predicted_profit # scored_candidates[2].predicted_profit

C8_NoPartialFile ==
    Terminated => \A f \in FileNames : fs.files[f].state # "partial"

\* C9: the ranking lists every feature once with its signed coefficient,
\* in descending order of absolute coefficient, features of equal absolute
\* coefficient in declaration order.
FeatureIndex(name) == CHOOSE k \in 1..NFeatures : FEATURES[k] = name

C9_RankingOrder ==
    rankpc = "ranked" =>
        /\ Len(importance) = NFeatures
        /\ \A k \in 1..NFeatures :
              Cardinality({ i \in 1..NFeatures : importance[i].feature = FEATURES[k] }) = 1
        /\ \A i \in 1..NFeatures :
              importance[i].importance = coefs[FeatureIndex(importance[i].feature)]
        /\ \A i \in 1..(NFeatures - 1) :
              \/ Abs(importance[i].importance) > Abs(importance[i + 1].importance)
              \/ /\ Abs(importance[i].importance) = Abs(importance[i + 1].importance)
                 /\ FeatureIndex(importance[i].feature)
                      < FeatureIndex(importance[i + 1].feature)

\* C10: model.joblib changes (is opened, written, or its content replaced)
\* only in a training run whose six other outputs are already complete, so
\* a run that fails before its last write leaves the earlier artifact as
\* it was.
C10_ModelWrittenLast ==
    [][ (fs'.files["model.joblib"] # fs.files["model.joblib"]
            \/ model_joblib' # model_joblib) =>
        /\ Training
        /\ \A f \in TrainFiles \ {"model.joblib"} : CompleteByRun(f) ]_vars

C10_Witness ==
    /\ Training /\ pc = "failed"
    /\ RunOutputs # {}
    /\ fs.files["model.joblib"].state = "complete"
    /\ fs.files["model.joblib"].run < run
    /\ model_joblib.fitted

====
